---------------------------- MODULE Spec2Model ----------------------------
(***************************************************************************)
(* Model of the homebox_labels label engine.                               *)
(*                                                                         *)
(*  - the Avery 5163 grid template (pagination state machine) and the     *)
(*    paged render pipeline render_pdf that drives it      (Spec);         *)
(*  - the text-fit helpers of label_templates/utils.py and their callers  *)
(*    in the horizontal / vertical renderers            (TextSpec);        *)
(*  - render and render_png over any template           (RunSpec);         *)
(*  - get_template, the template options and main       (ConfigSpec);      *)
(*  - the width of a tape label, ptouch.py              (TapeSpec).        *)
(*                                                                         *)
(* Units.  Every length is kept in hundredths of a point (Pt == 100,       *)
(* Inch == 72 * Pt), so that every constant of the source is an integer.   *)
(* A string is a sequence of one-character strings; its measured width is  *)
(* the font size times the sum of its glyph advances (in em), which is how *)
(* reportlab's stringWidth computes it (no kerning).                       *)
(***************************************************************************)
EXTENDS Integers, Sequences, FiniteSets, TLC

(***************************************************************************)
(* Bounds of the model                                                     *)
(***************************************************************************)
MaxSkip == 12
MaxRuns == 2
MaxLabels == 12
MaxTextLen == 5     \* longest text given to the wrapping operations
MaxShortLen == 2    \* longest text given to shrink_fit
MaxWidthK == 8      \* largest width budget, in half points
MaxFontK == 6       \* largest font size, in quarter points
MaxBaselineK == 6   \* highest baseline of a text block, in half lines
MaxBlockEms == 5    \* widest text block, in em of the label font
MaxLoopLen == 3     \* longest text given to wrap_text_to_width_multiline
MaxLoopSize == 200  \* size at which a growing font size saturates
MaxTermLen == 1     \* longest text of the calls checked for termination
MaxPngLabels == 101 \* most labels of an unpaged run
MaxStubLabels == 3  \* most labels, and skipped slots, of a run on a stub
MaxTapeLen == 6     \* longest text line of a tape label, in characters

(***************************************************************************)
(* Layout constants, label_templates/avery5163/common.py                   *)
(***************************************************************************)
Pt == 100
Inch == 72 * Pt
PAGE_W == 612 * Pt
PAGE_H == 792 * Pt

LABEL_W == 4 * Inch
LABEL_H == 2 * Inch

COLS == 2
ROWS == 5
SLOTS == COLS * ROWS

MARGIN_LEFT == (17 * Inch) \div 100
MARGIN_RIGHT == (17 * Inch) \div 100
MARGIN_TOP == (50 * Inch) \div 100
MARGIN_BOTTOM == (50 * Inch) \div 100
H_GAP == (16 * Inch) \div 100
V_GAP == 0 * Inch
OFFSET_X == 0 * Inch
OFFSET_Y == 0 * Inch

LABEL_PADDING == (10 * Inch) \div 100

Max(a, b) == IF a >= b THEN a ELSE b
Min(a, b) == IF a <= b THEN a ELSE b

(***************************************************************************)
(* LabelGeometry and its derived accessors, label_types.py                 *)
(***************************************************************************)
LabelGeometry(left, bottom, right, top, on_new_page) ==
    [left |-> left, bottom |-> bottom, right |-> right, top |-> top,
     on_new_page |-> on_new_page]

(* the signed difference, without the clamp at zero *)
width_Signed(g) == g.right - g.left

width(g) == Max(g.right - g.left, 0)
height(g) == Max(g.top - g.bottom, 0)

VARIABLES
    slot_index,   \* Template._slot_index
    pc,           \* position of render_pdf: "idle", "skip", "labels", "done"
    skip,         \* the skip argument of the current run
    skip_left,    \* iterations left of `for _ in range(skip)`
    labels,       \* number of labels of the run; the labels are 1..labels
    idx,          \* labels already taken by `for label in labels`
    draw_outline, \* the draw_outline argument
    first_page,   \* the local first_page of render_pdf
    canvas,       \* operations issued on canvas_obj, in order
    geoms,        \* geometries returned by next_label_geometry since reset()
    saved,        \* canvas_obj.save() has written the document
    template,     \* the template argument of the run
    calls,        \* labels given to template.render_label, in call order
    files,        \* PNG files written by the run: name and label
    runs,         \* render runs begun on the template object
    cls,          \* class of the template object ("none" before it exists)
    template_name, \* name given to get_template ("none": no call)
    default_orientation, \* Template._default_orientation
    selection,    \* "orientation" of the options given last (None: absent)
    applied,      \* how the last apply_options call ended
    cpc,          \* position of main: "start", "configured", "collected",
                  \* or the exception that ended it
    label_option, \* "orientation" of the template_options of the label
                  \* rendered last
    orientation,  \* orientation render_label resolved for it
    op,           \* the operation called ("none" before any)
    args,         \* its arguments
    result,       \* what it returned
    loop,         \* position, size and min_font of the loop of
                  \* wrap_text_to_width_multiline
    _page_break_pending, \* Template._page_break_pending of ptouch.py
    tape_calls,   \* calls made on the tape template, with their outcomes
    sanity,       \* outcome of the page sanity check ("unchecked": the
                  \* check has not run)
    outputs,      \* render_label calls made on the sheet template, with
                  \* what each returned
    vertical_slot_index \* _slot_index of Template._vertical_renderer

pipeVars == <<slot_index, pc, skip, skip_left, labels, idx, draw_outline,
              first_page, canvas, geoms, saved, template, calls, files,
              runs>>

textVars == <<op, args, result, loop>>

cfgVars == <<cls, template_name, default_orientation, selection, applied, cpc,
             label_option, orientation>>

objVars == <<_page_break_pending, tape_calls, sanity, outputs,
             vertical_slot_index>>

vars == <<pipeVars, textVars, cfgVars, objVars>>

(***************************************************************************)
(* Template.next_label_geometry: the geometry computed from the slot index *)
(* before the increment, and the index after it.                           *)
(***************************************************************************)
GeometryAt(index) ==
    LET row == index \div COLS
        col == index % COLS
        bottom == PAGE_H - MARGIN_TOP - LABEL_H - row * (LABEL_H + V_GAP)
                    + OFFSET_Y
        top == bottom + LABEL_H
        left == MARGIN_LEFT + col * (LABEL_W + H_GAP) + OFFSET_X
        right == left + LABEL_W
        on_new_page == (index = 0)
    IN  LabelGeometry(left, bottom, right, top, on_new_page)

(* a slot index that is never wrapped back to 0 *)
NextSlotIndex_NoWrap(index) == index + 1

NextSlotIndex(index) == (index + 1) % SLOTS

(***************************************************************************)
(* The templates given to render: the Avery 5163 grid, a template of the   *)
(* LabelTemplate interface that has no page size, and a paged stub of the  *)
(* interface whose call number bad_call returns a rectangle of bad_w by    *)
(* bad_h (bad_call = 0: no such call).                                     *)
(***************************************************************************)
Avery5163 == [kind |-> "avery5163", bad_call |-> 0, bad_w |-> 0, bad_h |-> 0]
Unpaged == [kind |-> "unpaged", bad_call |-> 0, bad_w |-> 0, bad_h |-> 0]
StubTemplates ==
    {[kind |-> "stub", bad_call |-> 0, bad_w |-> 0, bad_h |-> 0]}
    \cup {[kind |-> "stub", bad_call |-> c, bad_w |-> d[1], bad_h |-> d[2]] :
              c \in 1..(2 * MaxStubLabels),
              d \in {<<-Inch, Inch>>, <<0, Inch>>, <<Inch, 0>>}}

(* LabelTemplate.page_size is not None *)
page_size(t) == t.kind # "unpaged"

(* the geometry of call number `call` since reset() and the slot index     *)
(* after it *)
NextGeometry(t, index, call) ==
    IF t.kind = "avery5163" THEN GeometryAt(index)
    ELSE IF call = t.bad_call
         THEN LabelGeometry(0, 0, t.bad_w, t.bad_h, TRUE)
         ELSE LabelGeometry(0, 0, Inch, Inch, TRUE)

AdvanceSlot(t, index) ==
    IF t.kind = "avery5163" THEN NextSlotIndex(index) ELSE index

(***************************************************************************)
(* Strings and their measure                                               *)
(***************************************************************************)
Chars == {"a", "W", " "}
Texts(n) == UNION {[1..k -> Chars] : k \in 0..n}

(* the string the source uses as ellipsis: three glyphs *)
ELLIPSIS == <<"acirc", "euro", "brvbar">>

(* advance of a glyph, in em *)
GlyphUnits(ch) ==
    CASE ch = "a" -> 1
      [] ch = "W" -> 2
      [] ch = " " -> 1
      [] OTHER -> 1

RECURSIVE TextUnits(_)
TextUnits(text) ==
    IF text = <<>> THEN 0
    ELSE GlyphUnits(Head(text)) + TextUnits(Tail(text))

(* reportlab.pdfbase.pdfmetrics.stringWidth for the one font of the model *)
stringWidth(text, font_size) == font_size * TextUnits(text)

IsSpace(ch) == ch = " "

Front(s) == SubSeq(s, 1, Len(s) - 1)

(* str.lstrip, str.rstrip, str.strip *)
RECURSIVE LStrip(_)
LStrip(s) ==
    IF s # <<>> /\ IsSpace(Head(s)) THEN LStrip(Tail(s)) ELSE s

RECURSIVE RStrip(_)
RStrip(s) ==
    IF s # <<>> /\ IsSpace(s[Len(s)]) THEN RStrip(Front(s)) ELSE s

Strip(s) == RStrip(LStrip(s))

(* str.split(): the maximal runs of non-blank characters *)
RECURSIVE SplitFrom(_, _, _, _)
SplitFrom(s, i, word, words) ==
    IF i > Len(s)
    THEN IF word # <<>> THEN Append(words, word) ELSE words
    ELSE IF IsSpace(s[i])
         THEN SplitFrom(s, i + 1, <<>>,
                        IF word # <<>> THEN Append(words, word) ELSE words)
         ELSE SplitFrom(s, i + 1, Append(word, s[i]), words)

Split(s) == SplitFrom(s, 1, <<>>, <<>>)

(* " ".join(words) *)
RECURSIVE Join(_)
Join(words) ==
    IF words = <<>> THEN <<>>
    ELSE IF Len(words) = 1 THEN words[1]
    ELSE words[1] \o <<" ">> \o Join(Tail(words))

(***************************************************************************)
(* wrap_text_to_width, label_templates/utils.py                            *)
(***************************************************************************)

(* a character-level wrap that leaves out a character wider than the width *)
RECURSIVE CharWrap_DropWide(_, _, _, _, _, _)
CharWrap_DropWide(word, j, lines, partial, font_size, max_width_pt) ==
    IF j > Len(word) THEN [lines |-> lines, partial |-> partial]
    ELSE LET ch == <<word[j]>>
             candidate == partial \o ch
         IN  IF stringWidth(candidate, font_size) > max_width_pt
             THEN IF partial # <<>>
                  THEN CharWrap_DropWide(word, j + 1, Append(lines, partial),
                                         ch, font_size, max_width_pt)
                  ELSE CharWrap_DropWide(word, j + 1, lines, <<>>,
                                         font_size, max_width_pt)
             ELSE CharWrap_DropWide(word, j + 1, lines, candidate,
                                    font_size, max_width_pt)

(* lines 99-109: the character-level wrap of one word *)
RECURSIVE CharWrap(_, _, _, _, _, _)
CharWrap(word, j, lines, partial, font_size, max_width_pt) ==
    IF j > Len(word) THEN [lines |-> lines, partial |-> partial]
    ELSE LET ch == <<word[j]>>
             candidate == partial \o ch
         IN  IF stringWidth(candidate, font_size) > max_width_pt
             THEN IF partial # <<>>
                  THEN CharWrap(word, j + 1, Append(lines, partial), ch,
                                font_size, max_width_pt)
                  ELSE CharWrap(word, j + 1, lines, ch,
                                font_size, max_width_pt)
             ELSE CharWrap(word, j + 1, lines, candidate,
                           font_size, max_width_pt)

(* lines 87-115: the loop over the words and the final flush *)
RECURSIVE WrapWords(_, _, _, _, _, _)
WrapWords(words, i, lines, current, font_size, max_width_pt) ==
    IF i > Len(words)
    THEN IF current # <<>> THEN Append(lines, Join(current)) ELSE lines
    ELSE LET word == words[i]
             tentative == IF current # <<>> THEN Join(Append(current, word))
                          ELSE word
         IN  IF stringWidth(tentative, font_size) <= max_width_pt
             THEN WrapWords(words, i + 1, lines, Append(current, word),
                            font_size, max_width_pt)
             ELSE IF current # <<>>
             THEN WrapWords(words, i + 1, Append(lines, Join(current)),
                            <<word>>, font_size, max_width_pt)
             ELSE LET cw == CharWrap(word, 1, lines, <<>>, font_size,
                                     max_width_pt)
                  IN  WrapWords(words, i + 1, cw.lines,
                                IF cw.partial # <<>> THEN <<cw.partial>>
                                ELSE current,
                                font_size, max_width_pt)

wrap_text_to_width(text, font_size, max_width_pt) ==
    IF text = <<>> \/ max_width_pt <= 0 THEN <<>>
    ELSE LET words == Split(text)
         IN  IF words = <<>> THEN <<>>
             ELSE WrapWords(words, 1, <<>>, <<>>, font_size, max_width_pt)

(***************************************************************************)
(* shrink_fit, label_templates/utils.py                                    *)
(***************************************************************************)
StepFloor == 25       \* 0.25pt
DefaultStep == 50     \* 0.5pt

(* a loop that also shrinks a text that fits exactly *)
RECURSIVE ShrinkLoop_ShrinksExactFit(_, _, _, _, _)
ShrinkLoop_ShrinksExactFit(size, text, max_width_pt, min_font, step) ==
    IF size >= min_font /\ stringWidth(text, size) >= max_width_pt
    THEN ShrinkLoop_ShrinksExactFit(size - step, text, max_width_pt,
                                    min_font, step)
    ELSE size

(* lines 130-134: the loop, from the current size *)
RECURSIVE ShrinkLoop(_, _, _, _, _)
ShrinkLoop(size, text, max_width_pt, min_font, step) ==
    IF size >= min_font /\ stringWidth(text, size) > max_width_pt
    THEN ShrinkLoop(size - step, text, max_width_pt, min_font, step)
    ELSE size

(* a shrink_fit that returns the loop's size without the final clamp *)
shrink_fit_NoClamp(text, max_width_pt, max_font, min_font, step) ==
    ShrinkLoop(max_font, text, max_width_pt, min_font, Max(step, StepFloor))

shrink_fit(text, max_width_pt, max_font, min_font, step) ==
    LET floored == Max(step, StepFloor)
        size == ShrinkLoop(max_font, text, max_width_pt, min_font, floored)
    IN  Max(size, min_font)

(***************************************************************************)
(* wrap_text_to_width_multiline, label_templates/utils.py                  *)
(***************************************************************************)
MinFontFloor == 50    \* 0.5pt

(* a minimum that is font_size whatever min_font_size is given *)
MinFont_IgnoresArgument(min_font_size, font_size) ==
    Max(font_size, MinFontFloor)

(* lines 28-29 *)
MinFont(min_font_size, font_size) ==
    Max(IF min_font_size # <<>> THEN min_font_size[1] ELSE font_size,
        MinFontFloor)

(* the width of the first word alone *)
Widest_FirstWord(words, size) ==
    IF words = <<>> THEN 0 ELSE stringWidth(Head(words), size)

(* line 36: the width of the widest word *)
RECURSIVE Widest(_, _)
Widest(words, size) ==
    IF words = <<>> THEN 0
    ELSE Max(stringWidth(Head(words), size), Widest(Tail(words), size))

(* lines 51-52: len(wrapped) * size * 1.2 <= max_height_pt *)
FitsHeight(count, size, max_height_pt) ==
    count * size * 12 <= max_height_pt * 10

(* lines 38 and 54: size -= step.  A float that grows (negative step)     *)
(* stops changing once the step is below its precision; the model         *)
(* saturates at MaxLoopSize instead.                                      *)
Decrement(size, step) == Min(size - step, MaxLoopSize)

(* lines 57-64 *)
FallbackLines(text, min_font, max_width_pt) ==
    LET fallback == wrap_text_to_width(text, min_font, max_width_pt)
    IN  IF fallback # <<>> THEN fallback ELSE <<text>>

(***************************************************************************)
(* The name block of a vertical label calls wrap_text_to_width_multiline   *)
(* by keyword, label_templates/avery5163/vertical.py lines 118-126.        *)
(***************************************************************************)
MultilineParams == {"text", "font_name", "font_size", "max_width_pt",
                    "max_height_pt", "min_font_size", "step"}
MultilineRequired == {"text", "font_name", "font_size", "max_width_pt",
                      "max_height_pt"}
Row2Keywords == {"text", "font_name", "font_size", "max_width_pt",
                 "max_lines", "min_font_size", "step"}

(* a keyword call binds when every keyword is a parameter and every       *)
(* parameter without a default is given                                   *)
Binds(keywords) ==
    /\ keywords \subseteq MultilineParams
    /\ MultilineRequired \subseteq keywords

(***************************************************************************)
(* _draw_text_block, label_templates/avery5163/horizontal.py               *)
(***************************************************************************)
LabelFontSize == 12 * Pt

(* lines 172-178: the lines that fit above the bottom of the block *)
RECURSIVE VisibleLines(_, _, _, _, _)
VisibleLines(lines, i, probe, line_gap, visible) ==
    IF i > Len(lines) \/ probe < LabelFontSize THEN visible
    ELSE VisibleLines(lines, i + 1, probe - line_gap, line_gap,
                      Append(visible, lines[i]))

(* a trim that appends the ellipsis to the whole line *)
TrimToFit_NoTrim(last, font_size, text_max_width) == last

(* lines 191-192: drop trailing characters until line + ellipsis fits *)
RECURSIVE TrimToFit(_, _, _)
TrimToFit(last, font_size, text_max_width) ==
    IF last # <<>>
       /\ stringWidth(last \o ELLIPSIS, font_size) > text_max_width
    THEN TrimToFit(Front(last), font_size, text_max_width)
    ELSE last

(* lines 186-198: the last visible line of a truncated block *)
WithEllipsis(visible_lines, font_size, text_max_width) ==
    LET ell_width == stringWidth(ELLIPSIS, font_size)
        n == Len(visible_lines)
        last == TrimToFit(RStrip(visible_lines[n]), font_size,
                          text_max_width)
    IN  IF ell_width <= text_max_width
        THEN IF last # <<>>
             THEN [visible_lines EXCEPT ![n] = last \o ELLIPSIS]
             ELSE [visible_lines EXCEPT ![n] =
                      IF ell_width <= text_max_width THEN ELLIPSIS
                      ELSE visible_lines[n]]
        ELSE visible_lines

(* lines 200-207: the drawString calls and the returned baseline *)
RECURSIVE DrawLines(_, _, _, _, _)
DrawLines(visible_lines, i, current, line_gap, drawn) ==
    IF i > Len(visible_lines) \/ current < LabelFontSize
    THEN [drawn |-> drawn, current |-> current]
    ELSE DrawLines(visible_lines, i + 1, current - line_gap, line_gap,
                   Append(drawn, RStrip(visible_lines[i])))

_draw_text_block(text0, baseline, text_max_width) ==
    LET text == Strip(text0)
        font_size == LabelFontSize
        nothing == [drawn |-> <<>>, current |-> baseline]
        lines == wrap_text_to_width(text, font_size, text_max_width)
        normalized == Join(Split(text))
        reconstructed == Join(lines)
        truncated_wrap == Strip(reconstructed) # Strip(normalized)
        line_gap == font_size + (LABEL_PADDING \div 2)
        visible_lines == VisibleLines(lines, 1, baseline, line_gap, <<>>)
        truncated_space == Len(visible_lines) < Len(lines)
        truncated == truncated_wrap \/ truncated_space
        final_lines == IF truncated
                       THEN WithEllipsis(visible_lines, font_size,
                                         text_max_width)
                       ELSE visible_lines
    IN  IF text = <<>> \/ baseline < font_size THEN nothing
        ELSE IF lines = <<>> THEN nothing
        ELSE IF visible_lines = <<>> THEN nothing
        ELSE DrawLines(final_lines, 1, baseline, line_gap, <<>>)

(***************************************************************************)
(* Calls of the text-fit operations                                        *)
(***************************************************************************)
FontSizes == {(Pt \div 4) * k : k \in 0..MaxFontK}
WidthBudgets == {(Pt \div 2) * k : k \in (-1)..MaxWidthK}
Steps == {-StepFloor, 0, Pt \div 10, StepFloor, DefaultStep}

NoArgs == [text |-> <<>>, font_size |-> 0, max_width_pt |-> 0,
           max_height_pt |-> 0, max_font |-> 0, min_font |-> 0,
           min_font_size |-> <<>>, step |-> 0, baseline |-> 0]
NoResult == [status |-> "none", lines |-> <<>>, size |-> 0]
NoLoop == [pc |-> "start", size |-> 0, min_font |-> 0]

(***************************************************************************)
(* Template options: label_templates/__init__.py, base.py, avery5163.py    *)
(* and avery5163/avery5163.py                                              *)
(***************************************************************************)
None == "None"

(* the values an option is given on the command line or in a label *)
OptionValues == {"horizontal", "vertical", "Vertical", "diagonal", ""}
TemplateNames == {"5163", "5163_vert", "5163_VERT", "ptouch", "avery"}

(* str.lower on the strings of the model *)
Lower(v) ==
    CASE v = "Vertical" -> "vertical"
      [] v = "5163_VERT" -> "5163_vert"
      [] OTHER -> v

(* `value or default` on an optional string *)
Or(value, default) == IF value \in {None, ""} THEN default ELSE value

_TEMPLATE_MAP ==
    [key \in {"5163", "5163_vert", "ptouch"} |->
        CASE key = "5163" -> "avery5163"
          [] key = "5163_vert" -> "avery5163_vert"
          [] key = "ptouch" -> "ptouch"]

(* the class that getattr(module, "Template", None) finds in the module    *)
(* label_templates.<module_name>: the name avery5163 is the package        *)
(* avery5163/, whose __init__ binds no Template                            *)
ModuleTemplate(module_name) ==
    CASE module_name = "avery5163" -> "none"
      [] module_name = "avery5163_vert" -> "avery5163_vert.Template"
      [] module_name = "ptouch" -> "ptouch.Template"

(* a class that leaves an abstract method of LabelTemplate undefined       *)
(* cannot be instantiated: ptouch.Template has no render_label             *)
Abstract(c) == c = "ptouch.Template"

(* the template classes that can be instantiated: Template of              *)
(* avery5163.py, Template of avery5163/avery5163.py, Template of           *)
(* avery5163_vert.py                                                       *)
TemplateClasses == {"avery5163.Template", "avery5163.avery5163.Template",
                    "avery5163_vert.Template"}

Orientations == {"horizontal", "vertical"}
_DEFAULT_ORIENTATION == "horizontal"

(* available_options: the allowed values of the option "orientation"      *)
available_options(c) ==
    IF c \in {"avery5163.Template", "avery5163.avery5163.Template"}
    THEN Orientations ELSE {}

(* apply_options: how the call ends and _default_orientation after it     *)
apply_options(c, default, value) ==
    IF c = "avery5163.Template"
    THEN LET chosen == Lower(Or(value, _DEFAULT_ORIENTATION))
         IN  IF chosen \notin {"horizontal", "vertical"}
             THEN [status |-> "ValueError", default |-> default]
             ELSE [status |-> "returned", default |-> chosen]
    ELSE [status |-> "returned", default |-> default]

(* get_template: how the call ends, the class of the template and its     *)
(* _default_orientation                                                    *)
get_template(n, value) ==
    LET key == Lower(n)
        raised(e) == [status |-> e, cls |-> "none",
                      default |-> _DEFAULT_ORIENTATION]
    IN  IF key \notin DOMAIN _TEMPLATE_MAP THEN raised("SystemExit")
        ELSE LET template_cls == ModuleTemplate(_TEMPLATE_MAP[key])
             IN  IF template_cls = "none" THEN raised("SystemExit")
                 ELSE IF Abstract(template_cls) THEN raised("TypeError")
                 ELSE IF value = None
                 THEN [status |-> "returned", cls |-> template_cls,
                       default |-> _DEFAULT_ORIENTATION]
                 ELSE LET a == apply_options(template_cls,
                                             _DEFAULT_ORIENTATION, value)
                      IN  [status |-> a.status,
                           cls |-> IF a.status = "returned"
                                   THEN template_cls ELSE "none",
                           default |-> a.default]

(* _resolve_orientation of avery5163.py *)
_resolve_orientation(default, value) ==
    LET chosen == Lower(Or(value, default))
    IN  IF chosen \notin {"horizontal", "vertical"} THEN default ELSE chosen

(* _orientation_for_label of avery5163/avery5163.py *)
_orientation_for_label(value) ==
    LET chosen == Lower(Or(value, _DEFAULT_ORIENTATION))
    IN  IF chosen \in Orientations THEN chosen ELSE _DEFAULT_ORIENTATION

CfgInit ==
    /\ cls = "none"
    /\ template_name = "none"
    /\ default_orientation = _DEFAULT_ORIENTATION
    /\ selection = None
    /\ applied = "none"
    /\ cpc = "start"
    /\ label_option = None
    /\ orientation = "none"

(* the template objects as their constructors leave them: __init__ of    *)
(* label_templates/base.py calls reset()                                   *)
ObjInit ==
    /\ _page_break_pending = FALSE
    /\ tape_calls = <<>>
    /\ sanity = "unchecked"
    /\ outputs = <<>>
    /\ vertical_slot_index = 0

(* canvas operations *)
ShowPageOp == [op |-> "showPage", label |-> 0, left |-> 0, bottom |-> 0,
               width |-> 0, height |-> 0]
DrawImageOp(label, g) ==
    [op |-> "drawImage", label |-> label, left |-> g.left,
     bottom |-> g.bottom, width |-> width(g), height |-> height(g)]
RectOp(label, g) ==
    [op |-> "rect", label |-> label, left |-> g.left,
     bottom |-> g.bottom, width |-> width(g), height |-> height(g)]

(***************************************************************************)
(* render_pdf, label_generation.py                                         *)
(***************************************************************************)
PipeInit ==
    /\ slot_index = 0
    /\ pc = "idle"
    /\ skip = 0
    /\ skip_left = 0
    /\ labels = 0
    /\ idx = 0
    /\ draw_outline = FALSE
    /\ first_page = TRUE
    /\ canvas = <<>>
    /\ geoms = <<>>
    /\ saved = FALSE
    /\ template = Avery5163
    /\ calls = <<>>
    /\ files = {}
    /\ runs = 0
    /\ CfgInit
    /\ ObjInit

Init ==
    /\ PipeInit
    /\ op = "none"
    /\ args = NoArgs
    /\ result = NoResult
    /\ loop = NoLoop

(* a run that leaves the template at the slot the run before reached *)
RenderPdfBegin_NoReset ==
    /\ pc \in {"idle", "done"}
    /\ runs < MaxRuns
    /\ runs' = runs + 1
    /\ \E s \in 0..MaxSkip, n \in 0..MaxLabels, o \in BOOLEAN :
          /\ skip' = s
          /\ skip_left' = s
          /\ labels' = n
          /\ draw_outline' = o
          /\ pc' = IF s > 0 THEN "skip" ELSE "labels"
    /\ slot_index' = slot_index
    /\ geoms' = <<>>
    /\ canvas' = <<>>
    /\ saved' = FALSE
    /\ idx' = 0
    /\ first_page' = TRUE
    /\ calls' = <<>>
    /\ files' = {}
    /\ UNCHANGED <<template, textVars, cfgVars, objVars>>

(* lines 67-71: template.reset(), a fresh canvas, entry of the skip loop *)
RenderPdfBegin ==
    /\ pc \in {"idle", "done"}
    /\ runs < MaxRuns
    /\ runs' = runs + 1
    /\ \E s \in 0..MaxSkip, n \in 0..MaxLabels, o \in BOOLEAN :
          /\ skip' = s
          /\ skip_left' = s
          /\ labels' = n
          /\ draw_outline' = o
          /\ pc' = IF s > 0 THEN "skip" ELSE "labels"
    /\ slot_index' = 0
    /\ geoms' = <<>>
    /\ canvas' = <<>>
    /\ saved' = FALSE
    /\ idx' = 0
    /\ first_page' = TRUE
    /\ calls' = <<>>
    /\ files' = {}
    /\ UNCHANGED <<template, textVars, cfgVars, objVars>>

(* a skip loop that counts down without consuming a geometry slot *)
SkipSlot_NoAdvance ==
    /\ pc = "skip"
    /\ skip_left > 0
    /\ skip_left' = skip_left - 1
    /\ pc' = IF skip_left' = 0 THEN "labels" ELSE "skip"
    /\ UNCHANGED <<slot_index, geoms, skip, labels, idx, draw_outline,
                   first_page, canvas, saved, template, calls, files,
                   textVars, cfgVars, objVars, runs>>

(* lines 73-74: one iteration of `for _ in range(skip)` *)
SkipSlot ==
    /\ pc = "skip"
    /\ skip_left > 0
    /\ geoms' = Append(geoms,
                       NextGeometry(template, slot_index, Len(geoms) + 1))
    /\ slot_index' = AdvanceSlot(template, slot_index)
    /\ skip_left' = skip_left - 1
    /\ pc' = IF skip_left' = 0 THEN "labels" ELSE "skip"
    /\ UNCHANGED <<skip, labels, idx, draw_outline, first_page, canvas, saved,
                   template, calls, files, textVars, cfgVars, objVars, runs>>

(* lines 79-83: the page break decision of one label *)
PageBreakOps(geometry, first) ==
    IF geometry.on_new_page /\ ~first THEN <<ShowPageOp>> ELSE <<>>

(* a check of the width alone *)
Degenerate_WidthOnly(geometry) == width(geometry) <= 0

(* line 85 *)
Degenerate(geometry) == width(geometry) <= 0 \/ height(geometry) <= 0

(* lines 77-110: one iteration of `for label in labels`; render_label      *)
(* returns the image of the label or raises                                *)
PlaceLabel ==
    /\ pc = "labels"
    /\ idx < labels
    /\ \E renders \in BOOLEAN :
          LET geometry == NextGeometry(template, slot_index, Len(geoms) + 1)
              label == idx + 1
              outline == IF draw_outline THEN <<RectOp(label, geometry)>>
                         ELSE <<>>
              page == PageBreakOps(geometry, first_page)
          IN  /\ geoms' = Append(geoms, geometry)
              /\ slot_index' = AdvanceSlot(template, slot_index)
              /\ first_page' = IF geometry.on_new_page THEN FALSE
                               ELSE first_page
              /\ IF Degenerate(geometry)
                 THEN /\ pc' = "raised"
                      /\ canvas' = canvas \o page
                      /\ calls' = calls
                      /\ idx' = idx
                 ELSE IF ~renders
                 THEN /\ pc' = "failed"
                      /\ canvas' = canvas \o page
                      /\ calls' = Append(calls, label)
                      /\ idx' = idx
                 ELSE /\ pc' = "labels"
                      /\ canvas' = canvas \o page
                                     \o <<DrawImageOp(label, geometry)>>
                                     \o outline
                      /\ calls' = Append(calls, label)
                      /\ idx' = idx + 1
    /\ UNCHANGED <<skip, skip_left, labels, draw_outline, saved, template,
                   files, textVars, cfgVars, objVars, runs>>

(* lines 112-114: the final showPage and save *)
RenderPdfFinish ==
    /\ pc = "labels"
    /\ idx = labels
    /\ canvas' = Append(canvas, ShowPageOp)
    /\ saved' = TRUE
    /\ pc' = "done"
    /\ UNCHANGED <<slot_index, skip, skip_left, labels, idx, draw_outline,
                   first_page, geoms, template, calls, files, textVars,
                   cfgVars, objVars, runs>>

Next ==
    \/ RenderPdfBegin
    \/ SkipSlot
    \/ PlaceLabel
    \/ RenderPdfFinish

Spec == Init /\ [][Next]_vars

(***************************************************************************)
(* render and render_png, label_generation.py                              *)
(***************************************************************************)
PadWidth == 2

DigitChars == <<"0", "1", "2", "3", "4", "5", "6", "7", "8", "9">>

(* the decimal digits of n >= 0 *)
RECURSIVE Digits(_)
Digits(n) ==
    IF n < 10 THEN <<DigitChars[n + 1]>>
    ELSE Append(Digits(n \div 10), DigitChars[(n % 10) + 1])

RECURSIVE ZeroPad(_, _)
ZeroPad(digits, w) ==
    IF Len(digits) >= w THEN digits ELSE ZeroPad(<<"0">> \o digits, w)

(* a format that keeps the last two digits *)
Format02d_LastTwo(n) ==
    LET d == ZeroPad(Digits(n), PadWidth)
    IN  SubSeq(d, Len(d) - PadWidth + 1, Len(d))

(* line 51: f"{n:02d}" *)
Format02d(n) == ZeroPad(Digits(n), PadWidth)

(* line 51: f"{output_path}_{(i + 1):02d}.png", i + 1 = label *)
PngName(label) == <<"output_path", "_">> \o Format02d(label) \o <<".png">>

(* a dispatch that lets a skip through to render_png *)
RenderDispatch_IgnoresSkip(t, s, outline) ==
    IF page_size(t) THEN "render_pdf"
    ELSE IF outline THEN "rejected"
    ELSE "render_png"

(* lines 25-31: where render goes after template.reset() *)
RenderDispatch(t, s, outline) ==
    IF page_size(t) THEN "render_pdf"
    ELSE IF outline THEN "rejected"
    ELSE IF s > 0 THEN "rejected"
    ELSE "render_png"

(* the calls of render: template, skip, number of labels, draw_outline *)
RenderCalls ==
    {[template |-> Avery5163, skip |-> s, labels |-> n, draw_outline |-> o] :
        s \in 0..MaxSkip, n \in 0..MaxLabels, o \in BOOLEAN}
    \cup {[template |-> t, skip |-> s, labels |-> n, draw_outline |-> o] :
        t \in StubTemplates, s \in 0..MaxStubLabels,
        n \in 0..MaxStubLabels, o \in BOOLEAN}
    \cup {[template |-> Unpaged, skip |-> s, labels |-> n,
           draw_outline |-> o] :
        s \in 0..1, n \in 0..MaxPngLabels, o \in BOOLEAN}

(* lines 24-31, with the entry of render_pdf (lines 67-71) or of           *)
(* render_png (lines 41-46)                                                *)
Render ==
    /\ pc = "idle"
    /\ runs' = runs + 1
    /\ \E call \in RenderCalls :
          LET to == RenderDispatch(call.template, call.skip,
                                   call.draw_outline)
          IN  /\ template' = call.template
              /\ skip' = call.skip
              /\ skip_left' = IF to = "render_pdf" THEN call.skip ELSE 0
              /\ labels' = call.labels
              /\ draw_outline' = call.draw_outline
              /\ pc' = CASE to = "rejected" -> "rejected"
                         [] to = "render_pdf" ->
                              IF call.skip > 0 THEN "skip" ELSE "labels"
                         [] to = "render_png" ->
                              IF call.labels = 0 THEN "done" ELSE "png"
    /\ slot_index' = 0
    /\ geoms' = <<>>
    /\ canvas' = <<>>
    /\ saved' = FALSE
    /\ idx' = 0
    /\ first_page' = TRUE
    /\ calls' = <<>>
    /\ files' = {}
    /\ UNCHANGED <<textVars, cfgVars, objVars>>

(* lines 48-55: one iteration of `for i, label in enumerate(labels)`, and  *)
(* the return after the last one; open(..., "wb") replaces a file of the   *)
(* same name                                                               *)
WritePng ==
    /\ pc = "png"
    /\ idx < labels
    /\ \E renders \in BOOLEAN :
          LET label == idx + 1
              png_name == PngName(label)
          IN  /\ calls' = Append(calls, label)
              /\ IF renders
                 THEN /\ files' = {f \in files : f.name # png_name}
                                    \cup {[name |-> png_name,
                                           label |-> label]}
                      /\ idx' = idx + 1
                      /\ pc' = IF idx' = labels THEN "done" ELSE "png"
                 ELSE /\ pc' = "failed"
                      /\ UNCHANGED <<files, idx>>
    /\ UNCHANGED <<slot_index, skip, skip_left, labels, draw_outline,
                   first_page, canvas, geoms, saved, template, textVars,
                   cfgVars, objVars, runs>>

RunNext ==
    \/ Render
    \/ SkipSlot
    \/ PlaceLabel
    \/ RenderPdfFinish
    \/ WritePng

RunSpec == Init /\ [][RunNext]_vars

(***************************************************************************)
(* Configuration of a run: main of homebox_labels.py gets the template by  *)
(* name, collects the labels and renders them; a caller of the template    *)
(* classes constructs one, applies options and renders labels.             *)
(***************************************************************************)

(* homebox_labels.py line 527 *)
GetTemplate ==
    /\ cpc = "start"
    /\ \E n \in TemplateNames, value \in OptionValues \cup {None} :
          LET got == get_template(n, value)
          IN  /\ template_name' = n
              /\ selection' = value
              /\ cls' = got.cls
              /\ default_orientation' = got.default
              /\ applied' = IF got.status \in {"SystemExit", "TypeError"}
                               \/ value = None
                            THEN "none" ELSE got.status
              /\ cpc' = IF got.status = "returned" THEN "configured"
                        ELSE got.status
    /\ UNCHANGED <<label_option, orientation, pipeVars, textVars, objVars>>

(* Template(): the constructor of a template class *)
Construct ==
    /\ cpc = "start"
    /\ \E c \in TemplateClasses : cls' = c
    /\ default_orientation' = _DEFAULT_ORIENTATION
    /\ cpc' = "configured"
    /\ UNCHANGED <<template_name, selection, applied, label_option, orientation,
                   pipeVars, textVars, objVars>>

(* template.apply_options(selections), called on a constructed template   *)
ApplyOptions ==
    /\ cpc = "configured"
    /\ template_name = "none"
    /\ \E value \in OptionValues \cup {None} :
          LET a == apply_options(cls, default_orientation, value)
          IN  /\ selection' = value
              /\ applied' = a.status
              /\ default_orientation' = a.default
    /\ UNCHANGED <<cls, template_name, cpc, label_option, orientation,
                   pipeVars, textVars, objVars>>

(* homebox_labels.py lines 529-534 *)
CollectLabels ==
    /\ cpc = "configured"
    /\ cpc' = "collected"
    /\ UNCHANGED <<cls, template_name, default_orientation, selection,
                   applied, label_option, orientation,
                   pipeVars, textVars, objVars>>

(* template.render_label(content): the orientation the label is rendered   *)
(* in; the template of avery5163_vert.py has the vertical layout only      *)
RenderLabel ==
    /\ cpc = "collected"
    /\ \E value \in OptionValues \cup {None} :
          /\ label_option' = value
          /\ orientation' =
                CASE cls = "avery5163.Template" ->
                        _resolve_orientation(default_orientation, value)
                  [] cls = "avery5163.avery5163.Template" ->
                        _orientation_for_label(value)
                  [] OTHER -> "vertical"
    /\ UNCHANGED <<cls, template_name, default_orientation, selection,
                   applied, cpc, pipeVars, textVars, objVars>>

(* homebox_locations.py lines 528-531: the two assertions of template(); *)
(* the tolerance of 0.01 point is one unit of the model                    *)
PageSanity ==
    LET total_w == MARGIN_LEFT + COLS * LABEL_W + (COLS - 1) * H_GAP
                     + MARGIN_RIGHT
        total_h == MARGIN_BOTTOM + ROWS * LABEL_H + (ROWS - 1) * V_GAP
                     + MARGIN_TOP
    IN  IF /\ total_w - PAGE_W < 1 /\ PAGE_W - total_w < 1
           /\ total_h - PAGE_H < 1 /\ PAGE_H - total_h < 1
        THEN "passed" ELSE "AssertionError"

(* homebox_locations.py lines 493-494: render_label_pdf of the earlier     *)
(* script opens its canvas and calls template(canvas_obj)                  *)
LegacyTemplate ==
    /\ cpc = "start"
    /\ sanity' = PageSanity
    /\ cpc' = IF PageSanity = "passed" THEN "legacy" ELSE PageSanity
    /\ UNCHANGED <<cls, template_name, default_orientation, selection,
                   applied, label_option, orientation, _page_break_pending,
                   tape_calls, outputs, vertical_slot_index, pipeVars,
                   textVars>>

ConfigNext ==
    \/ LegacyTemplate
    \/ GetTemplate
    \/ Construct
    \/ ApplyOptions
    \/ CollectLabels
    \/ RenderLabel

ConfigSpec == Init /\ [][ConfigNext]_vars

(***************************************************************************)
(* The text-fit operations.  A behaviour of TextSpec is one call: the      *)
(* initial state holds the operation and its arguments, drawn from bounded *)
(* sets, and the operation's action computes what it returns.              *)
(***************************************************************************)
WrapCalls ==
    {[NoArgs EXCEPT !.text = text, !.font_size = font_size,
                    !.max_width_pt = max_width_pt] :
        text \in Texts(MaxTextLen), font_size \in {50, 100},
        max_width_pt \in WidthBudgets}

ShrinkCalls ==
    {[NoArgs EXCEPT !.text = text, !.max_width_pt = max_width_pt,
                    !.max_font = max_font, !.min_font = min_font,
                    !.step = step] :
        text \in Texts(MaxShortLen), max_width_pt \in WidthBudgets,
        max_font \in FontSizes, min_font \in FontSizes, step \in Steps}

BlockCalls ==
    {[NoArgs EXCEPT !.text = text, !.baseline = baseline,
                    !.max_width_pt = text_max_width] :
        text \in Texts(MaxTextLen),
        baseline \in {(LabelFontSize \div 2) * k : k \in 0..MaxBaselineK},
        text_max_width \in {LabelFontSize * k : k \in 0..MaxBlockEms}}

Row2Calls == {[NoArgs EXCEPT !.text = name] : name \in Texts(MaxShortLen)}

MultilineCalls ==
    {[NoArgs EXCEPT !.text = text, !.font_size = font_size,
                    !.max_width_pt = max_width_pt,
                    !.max_height_pt = max_height_pt,
                    !.min_font_size = min_font_size, !.step = step] :
        text \in Texts(MaxLoopLen), font_size \in {50, 100},
        max_width_pt \in {0, 50, 100, 150},
        max_height_pt \in {0, 60, 130, 250},
        min_font_size \in {<<>>, <<0>>, <<50>>, <<75>>},
        step \in {-StepFloor, 0, StepFloor, DefaultStep}}

TextInit ==
    /\ PipeInit
    /\ result = NoResult
    /\ loop = NoLoop
    /\ \/ op = "wrap_text_to_width" /\ args \in WrapCalls
       \/ op = "shrink_fit" /\ args \in ShrinkCalls
       \/ op = "_draw_text_block" /\ args \in BlockCalls
       \/ op = "_render_row_2" /\ args \in Row2Calls
       \/ op = "wrap_text_to_width_multiline" /\ args \in MultilineCalls

Pending(name) == op = name /\ result.status = "none"

WrapTextToWidth ==
    /\ Pending("wrap_text_to_width")
    /\ result' = [status |-> "returned",
                  lines |-> wrap_text_to_width(args.text, args.font_size,
                                               args.max_width_pt),
                  size |-> args.font_size]
    /\ UNCHANGED <<op, args, loop, pipeVars, cfgVars, objVars>>

ShrinkFit ==
    /\ Pending("shrink_fit")
    /\ result' = [status |-> "returned", lines |-> <<>>,
                  size |-> shrink_fit(args.text, args.max_width_pt,
                                      args.max_font, args.min_font,
                                      args.step)]
    /\ UNCHANGED <<op, args, loop, pipeVars, cfgVars, objVars>>

DrawTextBlock ==
    /\ Pending("_draw_text_block")
    /\ LET block == _draw_text_block(args.text, args.baseline,
                                     args.max_width_pt)
       IN  result' = [status |-> "returned", lines |-> block.drawn,
                      size |-> block.current]
    /\ UNCHANGED <<op, args, loop, pipeVars, cfgVars, objVars>>

(* vertical.py lines 115-126: the name block of a vertical label; the     *)
(* call raises when its keywords do not bind to the callee's parameters.  *)
RenderRow2 ==
    /\ Pending("_render_row_2")
    /\ LET body == Strip(args.text)
       IN  result' = IF body = <<>>
                     THEN [status |-> "returned", lines |-> <<>>, size |-> 0]
                     ELSE IF ~Binds(Row2Keywords)
                     THEN [status |-> "TypeError", lines |-> <<>>, size |-> 0]
                     ELSE [status |-> "called", lines |-> <<>>, size |-> 0]
    /\ UNCHANGED <<op, args, loop, pipeVars, cfgVars, objVars>>

(* utils.py lines 25-31: the early return, or entry of the loop *)
MultilineEnter ==
    /\ Pending("wrap_text_to_width_multiline")
    /\ loop.pc = "start"
    /\ IF args.text = <<>> \/ args.max_width_pt <= 0
                           \/ args.max_height_pt <= 0
       THEN /\ result' = [status |-> "returned", lines |-> <<>>,
                          size |-> args.font_size]
            /\ loop' = [loop EXCEPT !.pc = "done"]
       ELSE /\ loop' = [pc |-> "test", size |-> args.font_size,
                        min_font |-> MinFont(args.min_font_size,
                                             args.font_size)]
            /\ UNCHANGED result
    /\ UNCHANGED <<op, args, pipeVars, cfgVars, objVars>>

(* utils.py line 32 and lines 56-67: the loop condition, and the fallback *)
(* taken when it fails                                                    *)
MultilineTest ==
    /\ loop.pc = "test"
    /\ IF loop.size >= loop.min_font
       THEN /\ loop' = [loop EXCEPT !.pc = "body"]
            /\ UNCHANGED result
       ELSE /\ result' = [status |-> "returned",
                          lines |-> FallbackLines(args.text, loop.min_font,
                                                  args.max_width_pt),
                          size |-> loop.min_font]
            /\ loop' = [loop EXCEPT !.pc = "done"]
    /\ UNCHANGED <<op, args, pipeVars, cfgVars, objVars>>

(* utils.py lines 33-54: one pass through the loop body *)
MultilineBody ==
    /\ loop.pc = "body"
    /\ LET words == Split(args.text)
           wrapped == wrap_text_to_width(args.text, loop.size,
                                         args.max_width_pt)
       IN  IF /\ words # <<>>
              /\ Widest(words, loop.size) > args.max_width_pt
              /\ loop.size > loop.min_font
           THEN /\ loop' = [loop EXCEPT !.pc = "test",
                                        !.size = Decrement(loop.size,
                                                           args.step)]
                /\ UNCHANGED result
           ELSE IF /\ wrapped # <<>>
                   /\ FitsHeight(Len(wrapped), loop.size,
                                 args.max_height_pt)
           THEN /\ result' = [status |-> "returned", lines |-> wrapped,
                              size |-> loop.size]
                /\ loop' = [loop EXCEPT !.pc = "done"]
           ELSE /\ loop' = [loop EXCEPT !.pc = "test",
                                        !.size = Decrement(loop.size,
                                                           args.step)]
                /\ UNCHANGED result
    /\ UNCHANGED <<op, args, pipeVars, cfgVars, objVars>>

TextNext ==
    \/ WrapTextToWidth
    \/ ShrinkFit
    \/ DrawTextBlock
    \/ RenderRow2
    \/ MultilineEnter
    \/ MultilineTest
    \/ MultilineBody

TextSpec == TextInit /\ [][TextNext]_vars

(***************************************************************************)
(* The tape template, label_templates/ptouch.py.  Lengths of the tape are  *)
(* kept in 1/127 of a point: a millimetre is 72/25.4 = 360/127 points.     *)
(***************************************************************************)
TapePt == 127
Mm == 360

LABEL_HEIGHT == 24 * Mm
MAX_WIDTH == 100 * Mm
MIN_WIDTH == 30 * Mm
TAPE_PADDING == 1 * Mm

TitleSize == 16 * TapePt
ContentSize == 24 * TapePt
LabelSize == 12 * TapePt

(* the attributes of the label classes: LabelContent of label_types.py,    *)
(* which ptouch.py imports and main builds, and LabelContent of            *)
(* label_content.py                                                        *)
Attributes(class) ==
    CASE class = "label_types.LabelContent" ->
            {"title", "content", "url", "location_id", "path_text",
             "labels_text", "description_text", "template_options"}
      [] class = "label_content.LabelContent" ->
            {"title", "content", "url", "path_text", "categories_text"}

(* the text lines of the labels: a run of W, bare or between blanks *)
RECURSIVE Run(_)
Run(k) == IF k = 0 THEN <<>> ELSE <<"W">> \o Run(k - 1)

TapeTexts ==
    {Run(k) : k \in 0..MaxTapeLen}
    \cup {<<" ">> \o Run(k) \o <<" ">> : k \in 0..MaxTapeLen}

TapeLabels ==
    {[class |-> c, title |-> t, content |-> b, categories_text |-> g] :
        c \in {"label_content.LabelContent"},
        t \in TapeTexts, b \in TapeTexts, g \in TapeTexts}
    \cup {[class |-> c, title |-> t, content |-> b,
           categories_text |-> <<>>] :
        c \in {"label_types.LabelContent"},
        t \in TapeTexts, b \in TapeTexts}

(* line 31: LabelContent("", "", "") *)
_EMPTY_LABEL ==
    [class |-> "label_types.LabelContent", title |-> <<>>,
     content |-> <<>>, categories_text |-> <<>>]

(* lines 49-54: the measured width of a candidate line *)
LineWidth(line, size) ==
    IF Strip(line) = <<>> THEN 0 ELSE stringWidth(Strip(line), size)

(* lines 36-40 read label.title, label.content and label.categories_text;  *)
(* reading an attribute the label does not have raises AttributeError      *)
_compute_width(label) ==
    IF ~({"title", "content", "categories_text"}
            \subseteq Attributes(label.class))
    THEN [status |-> "AttributeError", width |-> 0]
    ELSE LET qr_size == LABEL_HEIGHT - 2 * TAPE_PADDING
             widest == Max(Max(LineWidth(label.title, TitleSize),
                               LineWidth(label.content, ContentSize)),
                           Max(LineWidth(label.categories_text, LabelSize),
                               0))
             desired_text_width == widest + TAPE_PADDING
             required == TAPE_PADDING + qr_size + TAPE_PADDING
                            + desired_text_width
         IN  [status |-> "returned",
              width |-> Min(Max(required, MIN_WIDTH), MAX_WIDTH)]

TapeInit ==
    /\ PipeInit
    /\ result = NoResult
    /\ loop = NoLoop
    /\ op = "_compute_width"
    /\ args \in TapeLabels

ComputeWidth ==
    /\ Pending("_compute_width")
    /\ LET computed == _compute_width(args)
       IN  result' = [status |-> computed.status, lines |-> <<>>,
                      size |-> computed.width]
    /\ UNCHANGED <<op, args, loop, pipeVars, cfgVars, objVars>>

(* draw_label, lines 140-179: the text area left of the width, the title  *)
(* drawn and the size shrink_fit gives it.  shrink_fit is called in half   *)
(* units (1/254 point), in which its default step of 0.5 point is TapePt   *)
(* and stays above the floor of the step.                                  *)
UNNAMED == <<"U", "n", "n", "a", "m", "e", "d">>

TextAreaWidth(w) ==
    Max(w - (LABEL_HEIGHT - 2 * TAPE_PADDING) - 3 * TAPE_PADDING, 0)

DrawnTitle(label) ==
    IF Strip(label.title) = <<>> THEN UNNAMED ELSE Strip(label.title)

draw_label(label, w) ==
    LET text_area_width == TextAreaWidth(w)
        title == DrawnTitle(label)
        title_size == shrink_fit(title, 2 * text_area_width, 2 * TitleSize,
                                 2 * Max(TitleSize \div 2, 6 * TapePt),
                                 TapePt)
    IN  [text_area_width |-> text_area_width, title |-> title,
         title_size |-> title_size]

(* Template.draw_label for the label and a geometry of the computed width *)
DrawLabel ==
    /\ op = "_compute_width"
    /\ result.status = "returned"
    /\ LET drawn == draw_label(args, result.size)
       IN  result' = [status |-> "drawn", lines |-> <<drawn.title>>,
                      size |-> drawn.title_size]
    /\ UNCHANGED <<op, args, loop, pipeVars, cfgVars, objVars>>

TapeNext ==
    \/ ComputeWidth
    \/ DrawLabel

TapeSpec == TapeInit /\ [][TapeNext]_vars

(***************************************************************************)
(* Termination of the text-fit operations is checked on calls with short   *)
(* texts.  The calls are sequential code: a step that is enabled is taken. *)
(***************************************************************************)
TermInit ==
    /\ PipeInit
    /\ result = NoResult
    /\ loop = NoLoop
    /\ \/ /\ op = "wrap_text_to_width"
          /\ args \in {a \in WrapCalls : Len(a.text) <= MaxTermLen}
       \/ /\ op = "shrink_fit"
          /\ args \in {a \in ShrinkCalls :
                          /\ Len(a.text) <= MaxTermLen
                          /\ a.max_width_pt \in {0, 100}
                          /\ a.min_font <= Pt \div 2}
       \/ /\ op = "wrap_text_to_width_multiline"
          /\ args \in {a \in MultilineCalls :
                          /\ Len(a.text) <= MaxTermLen
                          /\ a.max_height_pt \in {60, 250}
                          /\ a.max_width_pt \in {50, 150}}

TermNext ==
    \/ WrapTextToWidth
    \/ ShrinkFit
    \/ MultilineEnter
    \/ MultilineTest
    \/ MultilineBody

TermSpec == TermInit /\ [][TermNext]_vars /\ WF_vars(TermNext)


(***************************************************************************)
(* Claims about the grid template and the paged pipeline                   *)
(***************************************************************************)

(* the drawImage operations of the canvas, in the order they were issued *)
IsDrawImage(o) == o.op = "drawImage"
Draws == SelectSeq(canvas, IsDrawImage)

(* the rectangle of slot s of the sheet, from the layout constants *)
SlotLeft(s) == MARGIN_LEFT + (s % COLS) * (LABEL_W + H_GAP)
SlotBottom(s) == PAGE_H - MARGIN_TOP - ((s \div COLS) + 1) * LABEL_H

(* C1: in render_pdf no page is started before the first drawn label, and *)
(* a later label has a showPage immediately before its drawImage if and   *)
(* only if the geometry returned for it reports on_new_page.              *)
C1_PageStartedIffOnNewPage ==
    \A k \in 1..Len(canvas) :
        canvas[k].op = "drawImage" =>
            IF canvas[k].label = 1
            THEN \A m \in 1..(k - 1) : canvas[m].op # "showPage"
            ELSE (canvas[k - 1].op = "showPage")
                    <=> geoms[skip + canvas[k].label].on_new_page

(* C2: the k-th geometry returned after reset() (k = 0, 1, ...) is the    *)
(* rectangle of slot k mod SLOTS, row = s div COLS, col = s mod COLS, it  *)
(* reports on_new_page exactly when that slot is 0, and the stored        *)
(* slot_index stays in [0, SLOTS).                                        *)
C2_GridStateMachine ==
    /\ slot_index \in 0..(SLOTS - 1)
    /\ \A k \in 0..(Len(geoms) - 1) :
          LET s == k % SLOTS
              g == geoms[k + 1]
          IN  /\ g.left = SlotLeft(s)
              /\ g.bottom = SlotBottom(s)
              /\ g.right = SlotLeft(s) + LABEL_W
              /\ g.top = SlotBottom(s) + LABEL_H
              /\ g.on_new_page = (s = 0)

(* C2 witness: call SLOTS+1 has been made and reported a new page again *)
C2_Witness ==
    /\ Len(geoms) > SLOTS
    /\ geoms[SLOTS + 1].on_new_page
    /\ ~geoms[SLOTS].on_new_page

(* C3: render_pdf with skip = N consumes N geometries before the first    *)
(* label and draws nothing for them; the labels are drawn in input order, *)
(* the i-th (i = 0, 1, ...) in the rectangle of slot (N + i) mod SLOTS.   *)
C3_SkipPlacesLabels ==
    /\ pc = "skip" => canvas = <<>> /\ Len(geoms) = skip - skip_left
    /\ pc \in {"labels", "done"} =>
          /\ Len(geoms) = skip + idx
          /\ Len(Draws) = idx
          /\ \A i \in 0..(idx - 1) :
                LET d == Draws[i + 1]
                    s == (skip + i) % SLOTS
                IN  /\ d.label = i + 1
                    /\ d.left = SlotLeft(s)
                    /\ d.bottom = SlotBottom(s)
                    /\ d.width = LABEL_W
                    /\ d.height = LABEL_H

(* C3 witness: a finished run with a skip that is not a whole sheet and   *)
(* labels on both sides of the wrap of the slot index.                    *)
C3_Witness ==
    /\ pc = "done"
    /\ skip % SLOTS # 0
    /\ skip + labels > SLOTS
    /\ labels >= 2


(***************************************************************************)
(* Claims about wrap_text_to_width and shrink_fit                          *)
(***************************************************************************)
Returned(name) == op = name /\ result.status = "returned"

NotSpace(ch) == ~IsSpace(ch)
RemoveSpaces(s) == SelectSeq(s, NotSpace)

RECURSIVE Concat(_)
Concat(lines) ==
    IF lines = <<>> THEN <<>> ELSE Head(lines) \o Concat(Tail(lines))

(* C4: for max_width > 0 every line returned by wrap_text_to_width        *)
(* measures at most max_width, unless it is a single character.           *)
C4_LinesFitWidth ==
    (Returned("wrap_text_to_width") /\ args.max_width_pt > 0) =>
        \A i \in 1..Len(result.lines) :
            \/ stringWidth(result.lines[i], args.font_size)
                  <= args.max_width_pt
            \/ Len(result.lines[i]) = 1

C7_ShrinkFitBounds ==
    (Returned("shrink_fit") /\ args.min_font <= args.max_font) =>
        /\ args.min_font <= result.size
        /\ result.size <= args.max_font
        /\ stringWidth(args.text, args.max_font) <= args.max_width_pt
              => result.size = args.max_font

(* C7 witness: a text that does not fit at max_font and has been shrunk   *)
(* to a size strictly between the bounds.                                 *)
C7_Witness ==
    /\ Returned("shrink_fit")
    /\ stringWidth(args.text, args.max_font) > args.max_width_pt
    /\ args.min_font < result.size
    /\ result.size < args.max_font

(* the sizes max_font - k*step that are >= min_font and at which the text *)
(* fits max_width                                                         *)
FormBound == MaxFontK * (Pt \div 4)
FittingSizes(a, step) ==
    {x \in {a.max_font - k * step : k \in 0..FormBound} :
        x >= a.min_font /\ stringWidth(a.text, x) <= a.max_width_pt}

LargestFitting(a, step, size) ==
    IF FittingSizes(a, step) = {}
    THEN size = a.min_font
    ELSE /\ size \in FittingSizes(a, step)
         /\ \A x \in FittingSizes(a, step) : x <= size

(* C8 as stated: shrink_fit returns the largest size max_font - k*step,   *)
(* k >= 0, that is >= min_font and fits, and min_font when none does      *)
(* (taken for a step >= 0: with a negative step the sizes of that form    *)
(* grow without bound).                                                   *)
C8_LargestOfStep ==
    (Returned("shrink_fit") /\ args.step >= 0) =>
        LargestFitting(args, args.step, result.size)

(* C8 as amended: the same with the decrement the loop uses, which is     *)
(* max(step, 0.25pt).                                                     *)
C8_LargestOfFlooredStep ==
    Returned("shrink_fit") =>
        LargestFitting(args, Max(args.step, StepFloor), result.size)

(* C8 witnesses: a step below the floor with a result strictly between    *)
(* the bounds, and a text that fits at no size and gets min_font.         *)
C8_Witness ==
    /\ Returned("shrink_fit")
    /\ args.step < StepFloor
    /\ args.min_font < result.size
    /\ result.size < args.max_font

C8_WitnessOverflow ==
    /\ Returned("shrink_fit")
    /\ args.min_font < args.max_font
    /\ stringWidth(args.text, args.min_font) > args.max_width_pt
    /\ result.size = args.min_font

(***************************************************************************)
(* Claims about the bounded wrap, termination and the ellipsis             *)
(***************************************************************************)

(* C6: the bounded multi-line wrap asked for max_lines = N returns at     *)
(* most N lines for every text; the name block of a vertical label asks   *)
(* for N = 2.                                                             *)
Row2MaxLines == 2
C6_AtMostMaxLines ==
    (op = "_render_row_2" /\ result.status # "none"
        /\ Strip(args.text) # <<>>) =>
        /\ result.status = "returned"
        /\ Len(result.lines) <= Row2MaxLines

(* C9: every call of shrink_fit, wrap_text_to_width and                   *)
(* wrap_text_to_width_multiline returns, whatever its arguments,          *)
(* a step of 0 or below included.                                         *)
TextFitOps == {"shrink_fit", "wrap_text_to_width",
               "wrap_text_to_width_multiline"}
C9_EveryCallReturns ==
    (op \in TextFitOps) ~> (result.status = "returned")

(* the wrapped lines of a text block and how many of them are visible:    *)
(* line k is visible while baseline - k*(font_size + LABEL_PADDING/2) is  *)
(* at least font_size                                                     *)
BlockLines == wrap_text_to_width(Strip(args.text), LabelFontSize,
                                 args.max_width_pt)
BlockVisible ==
    Cardinality({k \in 0..(Len(BlockLines) - 1) :
        args.baseline - k * (LabelFontSize + LABEL_PADDING \div 2)
            >= LabelFontSize})

(* the case of C10: some but not all wrapped lines are visible and the    *)
(* ellipsis alone fits                                                    *)
BlockCutShort ==
    /\ Returned("_draw_text_block")
    /\ BlockVisible >= 1
    /\ BlockVisible < Len(BlockLines)
    /\ stringWidth(ELLIPSIS, LabelFontSize) <= args.max_width_pt

IsPrefix(p, s) == Len(p) <= Len(s) /\ p = SubSeq(s, 1, Len(p))

(* C10: when the wrapped text has more lines than are visible and the     *)
(* ellipsis fits, the visible lines are drawn, the last of them as the    *)
(* longest prefix of the line that fits together with the ellipsis,       *)
(* followed by the ellipsis (the lone ellipsis when no character is       *)
(* left); its measured width is at most max_width.                        *)
C10_EllipsisOnLastLine ==
    BlockCutShort =>
        LET n == BlockVisible
            whole == RStrip(BlockLines[n])
            last == result.lines[n]
            kept == SubSeq(last, 1, Len(last) - Len(ELLIPSIS))
        IN  /\ Len(result.lines) = n
            /\ \A i \in 1..(n - 1) : result.lines[i] = BlockLines[i]
            /\ Len(last) >= Len(ELLIPSIS)
            /\ last = kept \o ELLIPSIS
            /\ IsPrefix(kept, whole)
            /\ stringWidth(last, LabelFontSize) <= args.max_width_pt
            /\ \A m \in (Len(kept) + 1)..Len(whole) :
                  stringWidth(SubSeq(whole, 1, m) \o ELLIPSIS, LabelFontSize)
                      > args.max_width_pt

(* C10 witnesses: a last line that lost some but not all characters, and  *)
(* one that is the lone ellipsis.                                         *)
C10_Witness ==
    /\ BlockCutShort
    /\ BlockVisible >= 2
    /\ Len(result.lines[BlockVisible]) > Len(ELLIPSIS)
    /\ Len(result.lines[BlockVisible])
          < Len(BlockLines[BlockVisible]) + Len(ELLIPSIS)

C10_WitnessLoneEllipsis ==
    /\ BlockCutShort
    /\ result.lines[BlockVisible] = ELLIPSIS

(***************************************************************************)
(* Claims about text blocks that need no truncation                        *)
(***************************************************************************)

(* C11: when every wrapped line of the text is visible, _draw_text_block   *)
(* draws exactly the wrapped lines, with no ellipsis and no character      *)
(* removed, also when a word was split at character level.                 *)
C11_DrawsWrappedLines ==
    (Returned("_draw_text_block") /\ BlockVisible = Len(BlockLines)) =>
        result.lines = BlockLines

(***************************************************************************)
(* Claims about render, render_png and the errors of a run                 *)
(***************************************************************************)

(* C12: a run in which a label raised a geometry or rendering error has    *)
(* left no output behind: the document is not saved and none of the run's  *)
(* PNG files exists.                                                       *)
C12_AbortLeavesNoOutput ==
    pc \in {"raised", "failed"} => ~saved /\ files = {}

(* C13: with a template without page size, render given draw_outline or    *)
(* skip > 0 raises before any render_label call and before any file is     *)
(* written; given skip = 0 and no outline it goes on to render the labels. *)
C13_UnpagedRejectsSkipAndOutline ==
    (pc # "idle" /\ ~page_size(template)) =>
        IF draw_outline \/ skip > 0
        THEN pc = "rejected" /\ calls = <<>> /\ files = {} /\ ~saved
        ELSE /\ pc \in {"png", "done", "failed"}
             /\ pc = "done" => Len(calls) = labels

(* C13 witnesses: a run rejected for its skip alone, and an unpaged run    *)
(* without skip and outline that rendered its labels.                      *)
C13_Witness ==
    /\ ~page_size(template)
    /\ pc = "rejected"
    /\ skip > 0
    /\ ~draw_outline
    /\ labels > 0

C13_WitnessRenders ==
    /\ ~page_size(template)
    /\ pc = "done"
    /\ labels > 1
    /\ Len(calls) = labels

(* the number a sequence of decimal digits stands for *)
RECURSIVE DigitsValue(_)
DigitsValue(digits) ==
    IF digits = <<>> THEN 0
    ELSE 10 * DigitsValue(Front(digits))
            + (CHOOSE d \in 0..9 : DigitChars[d + 1] = digits[Len(digits)])

(* the names of the files of the run *)
FileNames == {f.name : f \in files}

(* C14: a finished unpaged run of n labels has called render_label once    *)
(* per label in input order and has written exactly n files, label i to    *)
(* <prefix>_<i>.png with i in decimal, zero-padded to at least two digits; *)
(* the n names are pairwise distinct.                                      *)
C14_OneNumberedFilePerLabel ==
    (pc = "done" /\ ~page_size(template)) =>
        /\ calls = [i \in 1..labels |-> i]
        /\ Cardinality(files) = labels
        /\ Cardinality(FileNames) = labels
        /\ \A i \in 1..labels :
              \E f \in files :
                  LET n == Len(f.name)
                      number == SubSeq(f.name, 3, n - 1)
                  IN  /\ f.label = i
                      /\ f.name[1] = "output_path"
                      /\ f.name[2] = "_"
                      /\ f.name[n] = ".png"
                      /\ Len(number) >= PadWidth
                      /\ DigitsValue(number) = i
                      /\ Len(number) > PadWidth => number[1] # "0"

(* C14 witness: a finished unpaged run of more than 99 labels *)
C14_Witness ==
    /\ pc = "done"
    /\ ~page_size(template)
    /\ labels > 99
    /\ Cardinality(files) > 99

(* the operations issued on the canvas for label number `label` or later *)
OpsFrom(label) ==
    {k \in 1..Len(canvas) :
        canvas[k].op \in {"drawImage", "rect"} /\ canvas[k].label >= label}

(* the labels given to render_label so far *)
Rendered == {calls[k] : k \in 1..Len(calls)}

(* C15: in render_pdf, once the geometry returned for a label has          *)
(* width <= 0 or height <= 0, the run has raised: neither that label nor a *)
(* later one is rendered or drawn, and the document is not saved.          *)
C15_DegenerateGeometryIsFatal ==
    page_size(template) =>
        \A k \in (skip + 1)..Len(geoms) :
            (width(geoms[k]) <= 0 \/ height(geoms[k]) <= 0) =>
                /\ pc = "raised"
                /\ \A l \in Rendered : l < k - skip
                /\ OpsFrom(k - skip) = {}
                /\ ~saved

(* C15 witness: a run that drew a label and then raised on the zero-height *)
(* geometry of the next one.                                               *)
C15_Witness ==
    /\ pc = "raised"
    /\ Len(Draws) >= 1
    /\ idx < labels
    /\ height(geoms[Len(geoms)]) = 0
    /\ width(geoms[Len(geoms)]) > 0

(***************************************************************************)
(* Claims about template options and the configuration of a run            *)
(***************************************************************************)

(* C16: on a template that advertises the option, apply_options given a    *)
(* value (compared without regard to case) that is not an allowed value    *)
(* raises and leaves the configured default as it was; given an allowed    *)
(* value it returns and that value is the run default.                     *)
C16_ApplyOptionsValidates ==
    [][(/\ cpc = "configured"
        /\ cpc' = "configured"
        /\ available_options(cls) # {}
        /\ Or(selection', None) # None) =>
            IF Lower(selection') \in available_options(cls)
            THEN /\ applied' = "returned"
                 /\ default_orientation' = Lower(selection')
            ELSE /\ applied' = "ValueError"
                 /\ default_orientation' = default_orientation]_vars

(* C17: in a command-line run, an unknown template name (compared without  *)
(* regard to case) or an option value that is no allowed value makes       *)
(* get_template raise, so that no label is collected or rendered with it.  *)
C17_ConfigErrorsPrecedeRendering ==
    (/\ template_name # "none"
     /\ \/ Lower(template_name) \notin DOMAIN _TEMPLATE_MAP
        \/ /\ Or(selection, None) # None
           /\ Lower(selection) \notin Orientations) =>
        /\ cpc \in {"SystemExit", "ValueError"}
        /\ orientation = "none"

(* C18: on a template with the orientation option, render_label uses the   *)
(* orientation of the label's own options when it is an allowed value      *)
(* (compared without regard to case), and otherwise the run default: the   *)
(* recognised value apply_options was given last, horizontal when          *)
(* apply_options was never called.                                         *)
C18_LabelOptionOverridesDefault ==
    (/\ orientation # "none"
     /\ available_options(cls) # {}
     /\ \/ applied = "none"
        \/ applied = "returned" /\ Lower(selection) \in Orientations) =>
        orientation =
            IF Lower(label_option) \in Orientations
            THEN Lower(label_option)
            ELSE IF applied = "none" THEN "horizontal"
            ELSE Lower(selection)

(***************************************************************************)
(* Claims about the width of a tape label                                  *)
(***************************************************************************)

(* the measured width of the longest candidate text line of a label *)
Longest(label) ==
    Max(Max(LineWidth(label.title, TitleSize),
            LineWidth(label.content, ContentSize)),
        LineWidth(label.categories_text, LabelSize))

(* C19: for every label _compute_width returns a width in                  *)
(* [MIN_WIDTH, MAX_WIDTH], and a label whose longest candidate line        *)
(* measures at least as wide gets a tape at least as wide.                 *)
C19_WidthClampedAndMonotone ==
    (op = "_compute_width" /\ result.status # "none") =>
        /\ result.status = "returned"
        /\ MIN_WIDTH <= result.size
        /\ result.size <= MAX_WIDTH
        /\ \A other \in TapeLabels :
              Longest(other) >= Longest(args) =>
                  /\ _compute_width(other).status = "returned"
                  /\ _compute_width(other).width >= result.size

(* C20: for a label whose text lines are all empty, the computed tape      *)
(* width is exactly MIN_WIDTH.                                             *)
C20_EmptyLabelGetsMinWidth ==
    (/\ op = "_compute_width"
     /\ result.status # "none"
     /\ args.title = <<>>
     /\ args.content = <<>>
     /\ args.categories_text = <<>>) =>
        /\ result.status = "returned"
        /\ result.size = MIN_WIDTH

(***************************************************************************)
(* The pagination state of the tape template, ptouch.py lines 116-138.     *)
(* The class leaves render_label abstract, so the methods run on instances *)
(* of a subclass that supplies it.  An optional label is <<>> for None or  *)
(* <<label>>.                                                              *)
(***************************************************************************)
MaxTapeCalls == 4

CutLabels ==
    {<<>>}
    \cup {<<[class |-> c, title |-> t, content |-> <<>>,
             categories_text |-> <<>>]>> :
            c \in {"label_types.LabelContent", "label_content.LabelContent"},
            t \in {<<>>, Run(MaxTapeLen)}}

(* line 129: label or _EMPTY_LABEL *)
EffectiveLabel(label) == IF label = <<>> THEN _EMPTY_LABEL ELSE label[1]

(* label_types.py lines 20-27: the dataclass takes left, bottom, right,    *)
(* top and on_new_page, none of them with a default                        *)
NewLabelGeometry(fields) ==
    IF Len(fields) = 5
    THEN [status |-> "returned",
          geometry |-> LabelGeometry(fields[1], fields[2], fields[3],
                                     fields[4], fields[5])]
    ELSE [status |-> "TypeError",
          geometry |-> LabelGeometry(0, 0, 0, 0, FALSE)]

(* lines 125-133: the outcome of next_label_geometry and the flag it       *)
(* leaves; the flag is set between _compute_width and LabelGeometry(...)   *)
TapeNextLabelGeometry(label, pending) ==
    LET computed == _compute_width(EffectiveLabel(label))
        built == NewLabelGeometry(<<0, 0, computed.width, LABEL_HEIGHT>>)
    IN  IF computed.status # "returned"
        THEN [status |-> computed.status, pending |-> pending,
              geometry |-> built.geometry]
        ELSE [status |-> built.status, pending |-> TRUE,
              geometry |-> built.geometry]

TapeCall(call, status, value) ==
    [call |-> call, status |-> status, value |-> value]

(* lines 122-123 *)
TapeReset ==
    /\ Len(tape_calls) < MaxTapeCalls
    /\ _page_break_pending' = FALSE
    /\ tape_calls' = Append(tape_calls, TapeCall("reset", "returned", FALSE))
    /\ UNCHANGED <<sanity, outputs, vertical_slot_index, pipeVars, textVars,
                   cfgVars>>

(* lines 125-133 *)
TapeNextGeometry ==
    /\ Len(tape_calls) < MaxTapeCalls
    /\ \E label \in CutLabels :
          LET out == TapeNextLabelGeometry(label, _page_break_pending)
          IN  /\ _page_break_pending' = out.pending
              /\ tape_calls' = Append(tape_calls,
                                      TapeCall("next_label_geometry",
                                               out.status, FALSE))
    /\ UNCHANGED <<sanity, outputs, vertical_slot_index, pipeVars, textVars,
                   cfgVars>>

(* lines 135-138 *)
TapeConsumePageBreak ==
    /\ Len(tape_calls) < MaxTapeCalls
    /\ _page_break_pending' = FALSE
    /\ tape_calls' = Append(tape_calls,
                            TapeCall("consume_page_break", "returned",
                                     _page_break_pending))
    /\ UNCHANGED <<sanity, outputs, vertical_slot_index, pipeVars, textVars,
                   cfgVars>>

CutNext ==
    \/ TapeReset
    \/ TapeNextGeometry
    \/ TapeConsumePageBreak

CutSpec == Init /\ [][CutNext]_vars

(***************************************************************************)
(* C21  Tape template page breaks: every call of next_label_geometry       *)
(* returns and leaves one page break pending; a consume_page_break returns *)
(* true exactly when the call before it was next_label_geometry, and no    *)
(* page break is pending after consume_page_break or reset().              *)
(***************************************************************************)
C21_OneBreakPerGeometry ==
    /\ \A i \in 1..Len(tape_calls) :
          /\ tape_calls[i].call = "next_label_geometry"
                => tape_calls[i].status = "returned"
          /\ tape_calls[i].call = "consume_page_break"
                => tape_calls[i].value
                     = (i > 1 /\ tape_calls[i - 1].call
                                   = "next_label_geometry")
    /\ _page_break_pending
          = (tape_calls # <<>>
             /\ tape_calls[Len(tape_calls)].call = "next_label_geometry")

(***************************************************************************)
(* C22  Geometry invariants: the width of a geometry is right - left when  *)
(* that is positive and 0 otherwise, its height is top - bottom when that  *)
(* is positive and 0 otherwise, so neither is negative; and every geometry *)
(* the Avery 5163 template has returned, after any number of calls, has a  *)
(* strictly positive width and height.                                     *)
(***************************************************************************)
ClampedAtZero(size, difference) ==
    /\ size >= 0
    /\ difference > 0 => size = difference
    /\ difference <= 0 => size = 0

C22_GeometryDimensions ==
    \A i \in 1..Len(geoms) :
        /\ ClampedAtZero(width(geoms[i]), geoms[i].right - geoms[i].left)
        /\ ClampedAtZero(height(geoms[i]), geoms[i].top - geoms[i].bottom)
        /\ template.kind = "avery5163"
              => width(geoms[i]) > 0 /\ height(geoms[i]) > 0

(* the grid has wrapped to a second sheet *)
C22_Witness ==
    /\ template.kind = "avery5163"
    /\ Len(geoms) > SLOTS
    /\ width(geoms[Len(geoms)]) = LABEL_W

(* a template of the interface has returned an inverted rectangle *)
C22_WitnessInverted ==
    \E i \in 1..Len(geoms) :
        geoms[i].right < geoms[i].left /\ width(geoms[i]) = 0

(***************************************************************************)
(* C23  Grid sanity check: the margins, labels and gaps of the Avery 5163  *)
(* layout add up to the page width and to the page height, and a grid      *)
(* template that has been constructed has had this check made, a mismatch  *)
(* ending the program.                                                     *)
(***************************************************************************)
GridClasses == {"avery5163.Template", "avery5163.avery5163.Template",
                "avery5163_vert.Template"}

C23_LayoutFillsPage ==
    /\ MARGIN_LEFT + COLS * LABEL_W + (COLS - 1) * H_GAP + MARGIN_RIGHT
          = PAGE_W
    /\ MARGIN_BOTTOM + ROWS * LABEL_H + (ROWS - 1) * V_GAP + MARGIN_TOP
          = PAGE_H

C23_SanityCheckedAtConstruction ==
    /\ C23_LayoutFillsPage
    /\ cpc = "legacy" => sanity = "passed"
    /\ cls \in GridClasses /\ cpc \in {"configured", "collected"}
          => sanity = "passed"

(***************************************************************************)
(* The sheet templates as objects: reset, next_label_geometry and          *)
(* render_label called in any order on a constructed template.  A label is *)
(* its number and the "orientation" of its template_options; labels carry  *)
(* no "outline" option.                                                    *)
(***************************************************************************)
MaxSheetGeoms == 11
MaxRenders == 2
MaxSheetLabels == 2

(* the "orientation" of the template_options of the labels rendered:      *)
(* absent, an allowed value, a value that is not allowed                   *)
SheetOptions == {None, "vertical", "diagonal"}

(* the orientation a class renders a label in *)
LabelOrientation(c, default, option) ==
    CASE c = "avery5163.Template" -> _resolve_orientation(default, option)
      [] c = "avery5163.avery5163.Template" -> _orientation_for_label(option)
      [] OTHER -> "vertical"

(* a render that stamps the label with the slot the template is at *)
render_label_ReadsSlot(c, default, content, option) ==
    [orientation |-> LabelOrientation(c, default, option),
     content |-> content + slot_index]

(* render_label: the image is drawn from the content, in the orientation  *)
(* resolved for it, on a canvas of its own                                 *)
render_label(c, default, content, option) ==
    [orientation |-> LabelOrientation(c, default, option),
     content |-> content]

(* Template.reset *)
SheetReset ==
    /\ cpc = "configured"
    /\ slot_index' = 0
    /\ geoms' = <<>>
    /\ UNCHANGED <<pc, skip, skip_left, labels, idx, draw_outline, first_page,
                   canvas, saved, template, calls, files, textVars, cfgVars,
                   objVars, runs>>

(* Template.next_label_geometry *)
SheetNextLabelGeometry ==
    /\ cpc = "configured"
    /\ Len(geoms) < MaxSheetGeoms
    /\ geoms' = Append(geoms, GeometryAt(slot_index))
    /\ slot_index' = NextSlotIndex(slot_index)
    /\ UNCHANGED <<pc, skip, skip_left, labels, idx, draw_outline, first_page,
                   canvas, saved, template, calls, files, textVars, cfgVars,
                   objVars, runs>>

(* Template.render_label; Template of avery5163.py resets its vertical     *)
(* renderer before a vertical label                                        *)
SheetRenderLabel ==
    /\ cpc = "configured"
    /\ Len(outputs) < MaxRenders
    /\ \E content \in 1..MaxSheetLabels, option \in SheetOptions :
          /\ outputs' = Append(outputs,
                               [content |-> content, option |-> option,
                                default |-> default_orientation,
                                png |-> render_label(cls,
                                                     default_orientation,
                                                     content, option)])
          /\ vertical_slot_index' =
                IF /\ cls = "avery5163.Template"
                   /\ LabelOrientation(cls, default_orientation, option)
                         = "vertical"
                THEN 0 ELSE vertical_slot_index
    /\ UNCHANGED <<_page_break_pending, tape_calls, sanity, pipeVars,
                   textVars, cfgVars>>

SheetNext ==
    \/ Construct
    \/ ApplyOptions
    \/ SheetReset
    \/ SheetNextLabelGeometry
    \/ SheetRenderLabel

SheetSpec == Init /\ [][SheetNext]_vars

ShowPagesBefore(k) ==
    Cardinality({m \in 1..(k - 1) : canvas[m].op = "showPage"})

(* labels 1..i of a run with skip s that were given slot 0 *)
SheetStarts(s, i) == {j \in 1..i : (s + j - 1) % SLOTS = 0}

PageOf(s, i) == Max(Cardinality(SheetStarts(s, i)) - 1, 0)

C25_RunStartsFromReset ==
    pc \in {"skip", "labels", "done"} =>
        /\ slot_index = (skip - skip_left + idx) % SLOTS
        /\ geoms # <<>> => geoms[1] = GeometryAt(0) /\ geoms[1].on_new_page
        /\ \A k \in 1..Len(canvas) :
              canvas[k].op = "drawImage" =>
                  /\ canvas[k]
                        = DrawImageOp(canvas[k].label,
                                      GeometryAt((skip + canvas[k].label - 1)
                                                    % SLOTS))
                  /\ ShowPagesBefore(k) = PageOf(skip, canvas[k].label)

(* a second run on the same template has placed labels on two sheets *)
C25_Witness ==
    /\ runs = 2
    /\ pc = "done"
    /\ skip % SLOTS # 0
    /\ skip + labels > SLOTS
    /\ PageOf(skip, labels) = 1

(***************************************************************************)
(* Claims about the size wrap_text_to_width_multiline chooses              *)
(***************************************************************************)
MultilineReturned == Returned("wrap_text_to_width_multiline")

(* the early return of lines 25-26 applies *)
NothingToFit ==
    args.text = <<>> \/ args.max_width_pt <= 0 \/ args.max_height_pt <= 0

(* min_font_size, font_size when it is None *)
MinFontSize ==
    IF args.min_font_size # <<>> THEN args.min_font_size[1]
    ELSE args.font_size

(* some word of the text is wider than max_width at font_size *)
WideWordAtFontSize ==
    Widest(Split(args.text), args.font_size) > args.max_width_pt

LinesFit(lines, size) ==
    \A i \in 1..Len(lines) : stringWidth(lines[i], size) <= args.max_width_pt

(* the text wrapped at font_size meets the width and the height budget *)
FitsAtFontSize ==
    LET wrapped == wrap_text_to_width(args.text, args.font_size,
                                      args.max_width_pt)
    IN  /\ wrapped # <<>>
        /\ LinesFit(wrapped, args.font_size)
        /\ FitsHeight(Len(wrapped), args.font_size, args.max_height_pt)

LowestSize == Max(MinFontSize, MinFontFloor)

RECURSIVE WordsOf(_)
WordsOf(lines) ==
    IF lines = <<>> THEN <<>> ELSE Split(Head(lines)) \o WordsOf(Tail(lines))

NoWordSplit == WordsOf(result.lines) = Split(args.text)

HeightMet == FitsHeight(Len(result.lines), result.size, args.max_height_pt)

C28_ShrinksBeforeHardWrap ==
    MultilineReturned /\ ~NothingToFit =>
        /\ result.size > MinFont(args.min_font_size, args.font_size)
              => /\ NoWordSplit
                 /\ LinesFit(result.lines, result.size)
                 /\ HeightMet
        /\ ~NoWordSplit \/ ~HeightMet
              => result.size = MinFont(args.min_font_size, args.font_size)

(* two words on two lines at a size between the minimum and font_size *)
C28_Witness ==
    /\ MultilineReturned
    /\ result.size > MinFont(args.min_font_size, args.font_size)
    /\ result.size < args.font_size
    /\ Len(result.lines) = 2

(* a word split over two lines at the minimum font size *)
C28_WitnessHardWrap ==
    /\ MultilineReturned
    /\ ~NothingToFit
    /\ ~NoWordSplit
    /\ result.size = MinFont(args.min_font_size, args.font_size)
    /\ result.size < args.font_size

(***************************************************************************)
(* center_baseline, label_templates/utils.py lines 136-160.  The arguments *)
(* are whole points; the baseline is kept in twentieths of a point, which  *)
(* holds the half of line 154 and the 0.7 of line 157 exactly.             *)
(***************************************************************************)
MaxCenterLines == 3
MaxAreaK == 4
MaxCenterFontK == 3

Twentieths == 20

(* a baseline without the floor of area_bottom + font_size *)
center_baseline_NoFloor(line_count, font_size, area_top, area_bottom, gap) ==
    IF line_count <= 0 \/ area_top <= area_bottom
    THEN Twentieths * area_top
    ELSE LET area_height == area_top - area_bottom
             block_height == (line_count * font_size)
                                + Max(0, line_count - 1) * gap
             offset == Max((Twentieths \div 2)
                              * (area_height - block_height), 0)
             ascent_estimate == ((7 * Twentieths) \div 10) * font_size
             baseline == Twentieths * area_top - offset - ascent_estimate
         IN  Min(baseline, Twentieths * area_top)

center_baseline(line_count, font_size, area_top, area_bottom, gap) ==
    IF line_count <= 0 \/ area_top <= area_bottom
    THEN Twentieths * area_top
    ELSE LET area_height == area_top - area_bottom
             block_height == (line_count * font_size)
                                + Max(0, line_count - 1) * gap
             offset == Max((Twentieths \div 2)
                              * (area_height - block_height), 0)
             ascent_estimate == ((7 * Twentieths) \div 10) * font_size
             baseline == Twentieths * area_top - offset - ascent_estimate
         IN  Max(Twentieths * (area_bottom + font_size),
                 Min(baseline, Twentieths * area_top))

CenterCalls ==
    {[line_count |-> n, font_size |-> 6 * f, area_top |-> 10 * t,
      area_bottom |-> 10 * b, gap |-> g] :
        n \in (-1)..MaxCenterLines, f \in 0..MaxCenterFontK,
        t \in 0..MaxAreaK, b \in 0..MaxAreaK, g \in {0, 2}}

CenterInit ==
    /\ PipeInit
    /\ result = NoResult
    /\ loop = NoLoop
    /\ op = "center_baseline"
    /\ args \in CenterCalls

CenterBaseline ==
    /\ Pending("center_baseline")
    /\ result' = [status |-> "returned", lines |-> <<>>,
                  size |-> center_baseline(args.line_count, args.font_size,
                                           args.area_top, args.area_bottom,
                                           args.gap)]
    /\ UNCHANGED <<op, args, loop, pipeVars, cfgVars, objVars>>

CenterNext == CenterBaseline

CenterSpec == CenterInit /\ [][CenterNext]_vars

(***************************************************************************)
(* Claims about center_baseline                                            *)
(***************************************************************************)
CenterReturned == Returned("center_baseline")

NoArea == args.line_count <= 0 \/ args.area_top <= args.area_bottom

(* C27 as stated: with line_count <= 0 or area_top <= area_bottom the      *)
(* result is area_top; otherwise the baseline b satisfies                  *)
(* area_bottom + font_size <= b <= area_top.                               *)
C27_BaselineBoundsAsStated ==
    CenterReturned =>
        IF NoArea THEN result.size = Twentieths * args.area_top
        ELSE /\ Twentieths * (args.area_bottom + args.font_size)
                   <= result.size
             /\ result.size <= Twentieths * args.area_top

(* C27, amended: with line_count <= 0 or area_top <= area_bottom the       *)
(* result is area_top; otherwise the baseline b is at least                *)
(* area_bottom + font_size, it is at most area_top when the area is at     *)
(* least font_size high, and it is area_bottom + font_size, above          *)
(* area_top, when the area is lower than font_size.                        *)
C27_BaselineBounds ==
    CenterReturned =>
        IF NoArea THEN result.size = Twentieths * args.area_top
        ELSE /\ Twentieths * (args.area_bottom + args.font_size)
                   <= result.size
             /\ args.area_top - args.area_bottom >= args.font_size
                   => result.size <= Twentieths * args.area_top
             /\ args.area_top - args.area_bottom < args.font_size
                   => result.size
                        = Twentieths * (args.area_bottom + args.font_size)

(* two lines centred in an area with room to spare: the baseline lies      *)
(* strictly between the bounds                                             *)
C27_Witness ==
    /\ CenterReturned
    /\ args.line_count = 2
    /\ Twentieths * (args.area_bottom + args.font_size) < result.size
    /\ result.size < Twentieths * args.area_top

(***************************************************************************)
(* C29  In the document render_pdf produces no two labels are drawn on the *)
(* same page in the same slot rectangle, and no page carries more than     *)
(* SLOTS labels.                                                           *)
(***************************************************************************)
DrawsOnPage(p) ==
    {k \in 1..Len(canvas) :
        canvas[k].op = "drawImage" /\ ShowPagesBefore(k) = p}

C29_NoTwoLabelsInOneSlot ==
    \A p \in 0..Len(canvas) :
        /\ Cardinality(DrawsOnPage(p)) <= SLOTS
        /\ \A k, m \in DrawsOnPage(p) :
              k # m => \/ canvas[k].left # canvas[m].left
                       \/ canvas[k].bottom # canvas[m].bottom

(***************************************************************************)
(* C30  Tape template: for every label whose computed width is below       *)
(* MAX_WIDTH, the text area draw_label derives from that width is at least *)
(* the width, at the full title size, of the title it draws ("Unnamed" for *)
(* an empty title), and the title is drawn at the full title size.         *)
(***************************************************************************)
C30_WidthSufficesForTitle ==
    /\ op = "_compute_width"
    /\ result.status = "drawn"
    /\ _compute_width(args).width < MAX_WIDTH
    => /\ TextAreaWidth(_compute_width(args).width)
             >= stringWidth(DrawnTitle(args), TitleSize)
       /\ result.size = 2 * TitleSize

=============================================================================
